---- MODULE Spec2Model ----
(***************************************************************************)
(* A model of homework.py: a bot that polls the homework-review API on a   *)
(* fixed period and forwards the verdict of the newest record, or the text *)
(* of any failure, to a Telegram chat.                                     *)
(*                                                                         *)
(* Python values are modelled as follows.  None is the string "None".  A   *)
(* dict is a record holding the set of its keys and one field per key the  *)
(* program reads; the field of a key that is absent holds a placeholder.   *)
(* An exception object is a record of its class, its message, the function *)
(* that raised it and its identity (exceptions define no __eq__, so != on  *)
(* them compares identities).  Message texts are given in English; a       *)
(* formatted string is the tuple of its parts.                             *)
(***************************************************************************)
EXTENDS Integers, Sequences, FiniteSets, TLC

VARIABLES
    PRACTICUM_TOKEN,    \* module global, os.getenv at import
    TELEGRAM_TOKEN,     \* module global, os.getenv at import
    TELEGRAM_CHAT_ID,   \* module global, os.getenv at import
    pc,                 \* the statement of main that runs next
    timestamp,          \* main's local: the cursor
    error_message,      \* main's local: the last error notified
    r,                  \* get_api_answer's local `response`: the HTTP response
    response,           \* main's local: the parsed body
    homeworks,          \* main's local: check_response's result
    message,            \* the text handed to send_message
    error,              \* the exception caught by main, or escaping it
    sent,               \* bot.send_message calls made in this iteration
    slept,              \* durations of the time.sleep calls since the last request
    cursor0,            \* the cursor when this iteration began
    parsed              \* the records handed to parse_status in this iteration

vars == <<PRACTICUM_TOKEN, TELEGRAM_TOKEN, TELEGRAM_CHAT_ID, pc, timestamp,
          error_message, r, response, homeworks, message, error, sent, slept,
          cursor0, parsed>>

(***************************************************************************)
(* Bounds of the model.                                                    *)
(***************************************************************************)
\* timestamps and current_date values range over 0..MaxTime
MaxTime == 1
\* the homeworks list of an envelope holds at most MaxHomeworks records
MaxHomeworks == 2

(***************************************************************************)
(* Python values.                                                          *)
(***************************************************************************)
None == "None"

\* the value of an environment variable: unset, set to '', set to a token
TokenValues == {None, "", "tok"}

\* HTTPStatus.OK
OK == 200

\* RETRY_PERIOD, in seconds
RETRY_PERIOD == 600

\* the keys of HOMEWORK_VERDICTS
KnownStatuses == {"approved", "reviewing", "rejected"}

HOMEWORK_VERDICTS ==
    [s \in KnownStatuses |->
        CASE s = "approved"  -> "Work checked: the reviewer liked everything. Hooray!"
          [] s = "reviewing" -> "Work taken for review by the reviewer."
          [] s = "rejected"  -> "Work checked: the reviewer has remarks."]

\* an exception object
Exc(type, args, tb, oid) == [type |-> type, args |-> args, tb |-> tb, oid |-> oid]

\* no exception: the slot of a local that is unbound
NoExc == Exc("None", <<>>, "None", 0)

\* the '' that error_message is initialised with
EmptyStr == Exc("str", <<"">>, "None", 0)

\* the identity of a newly allocated exception: that of no live object.  The
\* only other exception alive is the one error_message refers to.
FreshOid == IF error_message.oid = 1 THEN 2 ELSE 1

\* the result of a call: a returned value or a raised exception
Return(v) == [ok |-> TRUE, val |-> v]
Raise(e) == [ok |-> FALSE, exc |-> e]

(***************************************************************************)
(* What the remote API can answer.                                         *)
(***************************************************************************)
\* the values of a record's status: the known ones, an undocumented one,
\* null, and a value that is not hashable (a JSON array)
StatusValues == KnownStatuses \cup {"archived", None, "[]"}

NameValues == {"Lab 2"}

\* an element of homeworks that is no JSON object (a string, a number)
NotADict == [isdict |-> FALSE, keys |-> {}, status |-> None, homework_name |-> None]

\* the JSON objects with any of the keys status and homework_name
Records ==
    {NotADict} \cup
    { [isdict |-> TRUE, keys |-> ks,
       status |-> IF "status" \in ks THEN s ELSE None,
       homework_name |-> IF "homework_name" \in ks THEN n ELSE None] :
        ks \in SUBSET {"status", "homework_name"}, s \in StatusValues, n \in NameValues }

\* main reads element 0 of homeworks only; the elements after it are copies
\* of one record, which would be notified if it were element 0
TailRecord ==
    [isdict |-> TRUE, keys |-> {"status", "homework_name"},
     status |-> "approved", homework_name |-> "Lab 2"]

HomeworkLists ==
    {<<>>} \cup
    { <<h>> \o [i \in 1..n |-> TailRecord] : h \in Records, n \in 0..(MaxHomeworks - 1) }

\* the value under the key homeworks: a JSON array, or anything else
ListValue(items) == [kind |-> "list", items |-> items]
StrValue == [kind |-> "str", items |-> <<>>]
NoneValue == [kind |-> "None", items |-> <<>>]

\* a JSON document that is no object (an array, a string)
NotAMapping ==
    [isdict |-> FALSE, keys |-> {}, homeworks |-> NoneValue, current_date |-> 0]

\* the JSON documents main can be handed as the body of a response
Envelopes ==
    {NotAMapping} \cup
    { [isdict |-> TRUE, keys |-> ks,
       homeworks |-> IF "homeworks" \in ks THEN hw ELSE NoneValue,
       current_date |-> IF "current_date" \in ks THEN cd ELSE 0] :
        ks \in SUBSET {"homeworks", "current_date"},
        hw \in {StrValue} \cup {ListValue(l) : l \in HomeworkLists},
        cd \in 0..MaxTime }

NoResponse == NotAMapping

\* the status codes the API answers with
StatusCodes == {200, 204, 302, 404}

\* a requests.Response: its status code and its body, which parses as JSON
\* or does not.  The body of a 4xx/5xx answer is never read (raise_for_status
\* raises first), so those answers are enumerated with one body.
Response(code, is_json, body) == [status_code |-> code, is_json |-> is_json, body |-> body]

NoR == Response(0, FALSE, NoResponse)

Responses ==
    { Response(c, FALSE, NoResponse) : c \in StatusCodes } \cup
    { Response(c, TRUE, b) : c \in {c2 \in StatusCodes : c2 < 400}, b \in Envelopes }

(***************************************************************************)
(* The functions of homework.py.                                           *)
(***************************************************************************)
\* dict.get(key): the value, None when the key is absent
Get(d, key) == IF key \in d.keys THEN d[key] ELSE None

\* check_tokens: the names of the tokens that are None
missing_tokens ==
    {name \in {"PRACTICUM_TOKEN", "TELEGRAM_TOKEN", "TELEGRAM_CHAT_ID"} :
        CASE name = "PRACTICUM_TOKEN"  -> PRACTICUM_TOKEN = None
          [] name = "TELEGRAM_TOKEN"   -> TELEGRAM_TOKEN = None
          [] name = "TELEGRAM_CHAT_ID" -> TELEGRAM_CHAT_ID = None}

check_tokens ==
    IF Cardinality(missing_tokens) > 0
    THEN Raise(Exc("KeyError", <<"The following tokens are not set">>, "check_tokens", FreshOid))
    ELSE Return(None)

\* Response.raise_for_status: raises for the 4xx and 5xx codes only
raise_for_status(code) == 400 <= code /\ code < 600

\* get_api_answer after requests.get has returned rr (lines 100-109)
get_api_answer(rr) ==
    IF rr.status_code # OK /\ raise_for_status(rr.status_code)
    THEN Raise(Exc("HTTPError", <<ToString(rr.status_code)>>, "get_api_answer", FreshOid))
    ELSE IF rr.is_json
         THEN Return(rr.body)
         ELSE Raise(Exc("JSONDecodeError", <<"Expecting value">>, "get_api_answer", FreshOid))

\* get_api_answer when requests.get raises: the handler reads the unbound
\* local `response`
get_api_answer_failed ==
    Raise(Exc("UnboundLocalError", <<"local variable 'response' referenced before assignment">>,
              "get_api_answer", FreshOid))

\* all(key for key in ('current_date', 'homeworks')): the truth of the two
\* literals, which are non-empty strings
all_keys == \A key \in {"current_date", "homeworks"} : key # ""

check_response(resp) ==
    IF resp.isdict /\ all_keys /\ resp.homeworks.kind = "list"
    THEN Return(resp.homeworks.items)
    ELSE Raise(Exc("TypeError", <<"The data structure is not as expected">>,
                   "check_response", FreshOid))

\* f'Status of review for "{name}" changed. {verdict}'
VerdictText(name, verdict) == <<"Status of review for", name, "changed.", verdict>>

\* parse_status whose lookup falls back to a default verdict
parse_status_default(homework) ==
    IF ~homework.isdict
    THEN Raise(Exc("AttributeError", <<"object has no attribute 'get'">>,
                   "parse_status", FreshOid))
    ELSE IF "homework_name" \in homework.keys
    THEN Return(VerdictText(Get(homework, "homework_name"),
                            IF Get(homework, "status") \in DOMAIN HOMEWORK_VERDICTS
                            THEN HOMEWORK_VERDICTS[Get(homework, "status")]
                            ELSE None))
    ELSE Raise(Exc("KeyError", <<"Key homework_name is absent">>, "parse_status", FreshOid))

parse_status(homework) ==
    IF ~homework.isdict
    THEN Raise(Exc("AttributeError", <<"object has no attribute 'get'">>,
                   "parse_status", FreshOid))
    ELSE IF Get(homework, "status") = "[]"
    THEN Raise(Exc("TypeError", <<"unhashable type: 'list'">>, "parse_status", FreshOid))
    ELSE IF Get(homework, "status") \in DOMAIN HOMEWORK_VERDICTS
    THEN IF "homework_name" \in homework.keys
         THEN Return(VerdictText(Get(homework, "homework_name"),
                                 HOMEWORK_VERDICTS[Get(homework, "status")]))
         ELSE Raise(Exc("KeyError", <<"Key homework_name is absent">>,
                        "parse_status", FreshOid))
    ELSE IF Get(homework, "status") = None
    THEN Raise(Exc("WrongStatusError", <<"Status None">>, "parse_status", FreshOid))
    ELSE Raise(Exc("WrongStatusError", <<"Status is not documented">>,
                   "parse_status", FreshOid))

\* str(error): the message; a KeyError gives the repr of its argument
Str(e) == IF e.type = "KeyError" THEN <<"repr">> \o e.args ELSE e.args

\* f'Program failure: {error}'
FailureText(e) == <<"Program failure:">> \o Str(e)

\* the comparison of the texts of the two errors
NotEqualByText(e, m) == Str(e) # Str(m)

\* error != error_message: exceptions and str define no common equality, so
\* the comparison is one of identities
NotEqual(e, m) == e.oid # m.oid

\* send_message without its try/except: a failed delivery propagates
send_message_unguarded(delivered) ==
    IF delivered
    THEN Return(None)
    ELSE Raise(Exc("TelegramError", <<"delivery failed">>, "send_message", FreshOid))

\* send_message: bot.send_message is called; an exception it raises is
\* caught and logged, and the function returns
send_message(delivered) == Return(None)

\* telegram.Bot(token): the library rejects a token of the wrong form, the
\* empty one among them, with InvalidToken
Bot(token) ==
    IF token = "tok"
    THEN Return(None)
    ELSE Raise(Exc("InvalidToken", <<"Invalid token">>, "Bot", FreshOid))

\* one call of bot.send_message
Call(text, delivered) == [text |-> text, delivered |-> delivered]

NoMessage == <<>>

(***************************************************************************)
(* The state after the module is imported, and the steps of main.          *)
(*                                                                         *)
(* main's locals response and homeworks are read only in the iteration     *)
(* that assigned them: line 160 assigns response before any read of it,    *)
(* line 161 assigns homeworks before line 162 reads it, and the handler    *)
(* reads neither.  The step that ends an iteration therefore forgets them, *)
(* which keeps a value no later step can read out of the state.            *)
(*                                                                         *)
(* sent, slept, cursor0 and parsed record what an iteration has done; the  *)
(* program reads none of them.                                             *)
(***************************************************************************)
Init ==
    /\ PRACTICUM_TOKEN \in TokenValues
    /\ TELEGRAM_TOKEN \in TokenValues
    /\ TELEGRAM_CHAT_ID \in TokenValues
    /\ pc = "check_tokens"
    /\ timestamp = 0
    /\ error_message = EmptyStr
    /\ r = NoR
    /\ response = NoResponse
    /\ homeworks = <<>>
    /\ message = NoMessage
    /\ error = NoExc
    /\ sent = <<>>
    /\ slept = <<>>
    /\ cursor0 = 0
    /\ parsed = <<>>

tokens == <<PRACTICUM_TOKEN, TELEGRAM_TOKEN, TELEGRAM_CHAT_ID>>

\* line 154: check_tokens()
CheckTokens ==
    /\ pc = "check_tokens"
    /\ LET res == check_tokens IN
        IF res.ok
        THEN pc' = "bot" /\ error' = error
        ELSE pc' = "exited" /\ error' = res.exc
    /\ UNCHANGED <<tokens, timestamp, error_message, r, response, homeworks,
                   message, sent, slept>>
    /\ UNCHANGED <<cursor0, parsed>>

\* line 155: bot = telegram.Bot(token=TELEGRAM_TOKEN)
MakeBot ==
    /\ pc = "bot"
    /\ LET res == Bot(TELEGRAM_TOKEN) IN
        IF res.ok
        THEN pc' = "init" /\ error' = error
        ELSE pc' = "exited" /\ error' = res.exc
    /\ UNCHANGED <<tokens, timestamp, error_message, r, response, homeworks,
                   message, sent, slept>>
    /\ UNCHANGED <<cursor0, parsed>>

\* lines 156-157: timestamp = int(time.time()); error_message = ''
InitLocals ==
    /\ pc = "init"
    /\ \E now \in 0..MaxTime : timestamp' = now
    /\ error_message' = EmptyStr
    /\ pc' = "get_api_answer"
    /\ UNCHANGED <<tokens, r, response, homeworks, message, error, sent, slept>>
    /\ cursor0' = timestamp'
    /\ parsed' = parsed

\* lines 83-94: an iteration starts with requests.get, which returns a
\* response or raises a RequestException
RequestsGet ==
    /\ pc = "get_api_answer"
    /\ sent' = <<>>
    /\ slept' = <<>>
    /\ cursor0' = timestamp
    /\ parsed' = parsed
    /\ \/ \E rr \in Responses :
            /\ r' = rr
            /\ pc' = "get_api_answer_return"
            /\ error' = error
       \/ /\ r' = r
          /\ pc' = "except"
          /\ error' = get_api_answer_failed.exc
    /\ UNCHANGED <<tokens, timestamp, error_message, response, homeworks, message>>

\* lines 100-109 and the assignment of line 160
GetApiAnswerReturn ==
    /\ pc = "get_api_answer_return"
    /\ LET res == get_api_answer(r) IN
        IF res.ok
        THEN pc' = "check_response" /\ response' = res.val /\ error' = error
        ELSE pc' = "except" /\ response' = response /\ error' = res.exc
    /\ r' = NoR
    /\ UNCHANGED <<tokens, timestamp, error_message, homeworks, message, sent, slept>>
    /\ UNCHANGED <<cursor0, parsed>>

\* line 167 moved up to follow line 161: the cursor moves before the record
\* is parsed
CheckResponseMovesCursor ==
    /\ pc = "check_response"
    /\ LET res == check_response(response) IN
        IF res.ok
        THEN /\ pc' = "len"
             /\ homeworks' = res.val
             /\ error' = error
             /\ timestamp' = response.current_date
        ELSE /\ pc' = "except"
             /\ homeworks' = homeworks
             /\ error' = res.exc
             /\ timestamp' = timestamp
    /\ UNCHANGED <<tokens, error_message, r, response, message, sent, slept, cursor0, parsed>>

\* line 161: homeworks = check_response(response)
CheckResponse ==
    /\ pc = "check_response"
    /\ LET res == check_response(response) IN
        IF res.ok
        THEN pc' = "len" /\ homeworks' = res.val /\ error' = error
        ELSE pc' = "except" /\ homeworks' = homeworks /\ error' = res.exc
    /\ UNCHANGED <<tokens, timestamp, error_message, r, response, message, sent, slept>>
    /\ UNCHANGED <<cursor0, parsed>>

\* line 162 with >= for >: an empty list is parsed too
LenHomeworksOffByOne ==
    /\ pc = "len"
    /\ pc' = IF Len(homeworks) >= 0 THEN "parse_status" ELSE "sleep"
    /\ UNCHANGED <<tokens, timestamp, error_message, r, response, homeworks,
                   message, error, sent, slept>>
    /\ UNCHANGED <<cursor0, parsed>>

\* line 167 dedented out of the if of line 162: the cursor moves for an empty
\* list too
LenHomeworksDedented ==
    /\ pc = "len"
    /\ IF Len(homeworks) > 0
       THEN pc' = "parse_status" /\ timestamp' = timestamp /\ error' = error
       ELSE IF "current_date" \in response.keys
            THEN pc' = "sleep" /\ timestamp' = response.current_date /\ error' = error
            ELSE /\ pc' = "except"
                 /\ timestamp' = timestamp
                 /\ error' = Exc("KeyError", <<"current_date">>, "main", FreshOid)
    /\ UNCHANGED <<tokens, error_message, r, response, homeworks, message, sent, slept,
                   cursor0, parsed>>

\* line 162: if len(homeworks) > 0
LenHomeworks ==
    /\ pc = "len"
    /\ pc' = IF Len(homeworks) > 0 THEN "parse_status" ELSE "sleep"
    /\ UNCHANGED <<tokens, timestamp, error_message, r, response, homeworks,
                   message, error, sent, slept>>
    /\ UNCHANGED <<cursor0, parsed>>

\* [-1] for [0]: the last record of the list
last_homework(items) == items[Len(items)]

\* response.get('homeworks')[0]
first_homework(items) == items[1]

\* line 165: parse_status(response.get('homeworks')[0])
ParseStatus ==
    /\ pc = "parse_status"
    /\ LET items == Get(response, "homeworks").items
           res == IF Len(items) = 0
                  THEN Raise(Exc("IndexError", <<"list index out of range">>, "main", FreshOid))
                  ELSE parse_status(first_homework(items)) IN
        /\ IF res.ok
           THEN pc' = "send_message" /\ message' = res.val /\ error' = error
           ELSE pc' = "except" /\ message' = message /\ error' = res.exc
        /\ parsed' = IF Len(items) = 0 THEN parsed ELSE Append(parsed, first_homework(items))
    /\ UNCHANGED <<tokens, timestamp, error_message, r, response, homeworks, sent, slept,
                   cursor0>>

\* lines 163-166: send_message(bot, <the verdict>)
SendVerdict ==
    /\ pc = "send_message"
    /\ \E delivered \in BOOLEAN :
        LET res == send_message(delivered) IN
            /\ sent' = Append(sent, Call(message, delivered))
            /\ IF res.ok
               THEN pc' = "set_timestamp" /\ error' = error
               ELSE pc' = "except" /\ error' = res.exc
    /\ message' = NoMessage
    /\ UNCHANGED <<tokens, timestamp, error_message, r, response, homeworks, slept>>
    /\ UNCHANGED <<cursor0, parsed>>

\* main without line 167: the cursor is never moved
SetTimestampSkipped ==
    /\ pc = "set_timestamp"
    /\ pc' = "sleep"
    /\ UNCHANGED <<tokens, timestamp, error_message, r, response, homeworks,
                   message, error, sent, slept>>
    /\ UNCHANGED <<cursor0, parsed>>

\* line 167: timestamp = response['current_date']
SetTimestamp ==
    /\ pc = "set_timestamp"
    /\ IF "current_date" \in response.keys
       THEN /\ timestamp' = response.current_date
            /\ pc' = "sleep"
            /\ error' = error
       ELSE /\ timestamp' = timestamp
            /\ pc' = "except"
            /\ error' = Exc("KeyError", <<"current_date">>, "main", FreshOid)
    /\ UNCHANGED <<tokens, error_message, r, response, homeworks, message, sent, slept>>
    /\ UNCHANGED <<cursor0, parsed>>

\* a successful iteration that clears the error memory before it sleeps
SleepForgetsError ==
    /\ pc = "sleep"
    /\ slept' = Append(slept, RETRY_PERIOD)
    /\ pc' = "get_api_answer"
    /\ response' = NoResponse
    /\ homeworks' = <<>>
    /\ error_message' = EmptyStr
    /\ parsed' = <<>>
    /\ cursor0' = timestamp
    /\ UNCHANGED <<tokens, timestamp, r, message, error, sent>>

\* line 168: time.sleep(RETRY_PERIOD)
Sleep ==
    /\ pc = "sleep"
    /\ slept' = Append(slept, RETRY_PERIOD)
    /\ pc' = "get_api_answer"
    /\ response' = NoResponse
    /\ homeworks' = <<>>
    /\ UNCHANGED <<tokens, timestamp, error_message, r, message, error, sent>>
    /\ parsed' = <<>>
    /\ cursor0' = timestamp

\* a handler that catches WrongStatusError only: any other exception leaves
\* main
ExceptNarrow ==
    /\ pc = "except"
    /\ IF error.type = "WrongStatusError"
       THEN /\ message' = FailureText(error)
            /\ pc' = "send_error"
       ELSE /\ message' = message
            /\ pc' = "exited"
    /\ UNCHANGED <<tokens, timestamp, error_message, r, response, homeworks,
                   error, sent, slept>>
    /\ UNCHANGED <<cursor0, parsed>>

\* lines 169-171: except Exception as error; if error != error_message;
\* message = f'...{error}'.  When the two are equal the handler ends here
\* and the loop goes on without sleeping.
Except ==
    /\ pc = "except"
    /\ IF NotEqual(error, error_message)
       THEN /\ message' = FailureText(error)
            /\ pc' = "send_error"
            /\ error' = error
            /\ UNCHANGED <<response, homeworks, parsed>>
       ELSE /\ message' = message
            /\ pc' = "get_api_answer"
            /\ error' = NoExc
            /\ response' = NoResponse
            /\ homeworks' = <<>>
            /\ parsed' = <<>>
    /\ cursor0' = timestamp
    /\ UNCHANGED <<tokens, timestamp, error_message, r, sent, slept>>

\* line 172: send_message(bot, message); an exception raised here, inside
\* the handler, would leave main
SendError ==
    /\ pc = "send_error"
    /\ \E delivered \in BOOLEAN :
        LET res == send_message(delivered) IN
            /\ sent' = Append(sent, Call(message, delivered))
            /\ IF res.ok
               THEN pc' = "set_error_message" /\ error' = error
               ELSE pc' = "exited" /\ error' = res.exc
    /\ message' = NoMessage
    /\ UNCHANGED <<tokens, timestamp, error_message, r, response, homeworks, slept>>
    /\ UNCHANGED <<cursor0, parsed>>

\* line 173: error_message = error
SetErrorMessage ==
    /\ pc = "set_error_message"
    /\ error_message' = error
    /\ pc' = "sleep_except"
    /\ UNCHANGED <<tokens, timestamp, r, response, homeworks, message, error, sent, slept>>
    /\ UNCHANGED <<cursor0, parsed>>

\* line 174: time.sleep(RETRY_PERIOD); the handler ends and unbinds error
SleepExcept ==
    /\ pc = "sleep_except"
    /\ slept' = Append(slept, RETRY_PERIOD)
    /\ error' = NoExc
    /\ pc' = "get_api_answer"
    /\ response' = NoResponse
    /\ homeworks' = <<>>
    /\ UNCHANGED <<tokens, timestamp, error_message, r, message, sent>>
    /\ parsed' = <<>>
    /\ cursor0' = timestamp

Next ==
    \/ CheckTokens
    \/ MakeBot
    \/ InitLocals
    \/ RequestsGet
    \/ GetApiAnswerReturn
    \/ CheckResponse
    \/ LenHomeworks
    \/ ParseStatus
    \/ SendVerdict
    \/ SetTimestamp
    \/ Sleep
    \/ Except
    \/ SendError
    \/ SetErrorMessage
    \/ SleepExcept

Spec == Init /\ [][Next]_vars

\* main is one thread that is never descheduled for ever: every call it
\* makes (the request, the send, the sleep) returns
LiveSpec == Spec /\ WF_vars(Next)

(***************************************************************************)
(* Vocabulary of the properties.                                           *)
(***************************************************************************)
\* the statements of the while loop, handler included
LoopPcs ==
    {"get_api_answer", "get_api_answer_return", "check_response", "len",
     "parse_status", "send_message", "set_timestamp", "sleep", "except",
     "send_error", "set_error_message", "sleep_except"}

\* the statements of the handler of lines 169-174
HandlerPcs == {"except", "send_error", "set_error_message", "sleep_except"}

\* an envelope as section 3 of the specification wants it
ValidEnvelope(e) ==
    /\ e.isdict
    /\ {"homeworks", "current_date"} \subseteq e.keys
    /\ e.homeworks.kind = "list"

\* an envelope whose homeworks is a list, with or without current_date
HasList(e) == e.isdict /\ "homeworks" \in e.keys /\ e.homeworks.kind = "list"

\* a record with a known status and a homework_name
Notifiable(h) ==
    /\ h.isdict
    /\ {"status", "homework_name"} \subseteq h.keys
    /\ h.status \in {"approved", "reviewing", "rejected"}

\* the text the specification gives for a record
ExpectedText(h) ==
    <<"Status of review for", h.homework_name, "changed.",
      CASE h.status = "approved"  -> "Work checked: the reviewer liked everything. Hooray!"
        [] h.status = "reviewing" -> "Work taken for review by the reviewer."
        [] h.status = "rejected"  -> "Work checked: the reviewer has remarks.">>

\* element 0 of the envelope main holds
Element0 == response.homeworks.items[1]

\* main has just made the request of get_api_answer: only RequestsGet leads
\* to these states
Requested ==
    \/ pc = "get_api_answer_return"
    \/ pc = "except" /\ error.type = "UnboundLocalError"

(***************************************************************************)
(* C1.  Once check_tokens has succeeded and the loop is entered, main      *)
(* never leaves it: no step takes main from a statement of the loop to     *)
(* anywhere else (no exception escapes), and requests.get is called again  *)
(* and again for ever, whatever the API answers and whether or not the     *)
(* messages are delivered.                                                 *)
(***************************************************************************)
C1_LoopNeverExits ==
    /\ [][(pc \in LoopPcs) => (pc' \in LoopPcs)]_vars
    /\ []<>(pc \notin LoopPcs \/ Requested)

\* an iteration that caught an error, failed to deliver its notification,
\* slept and is about to call get_api_answer again
C1_Witness ==
    /\ pc = "get_api_answer"
    /\ Len(slept) = 1
    /\ error_message # EmptyStr
    /\ Len(sent) = 1
    /\ ~sent[1].delivered

(***************************************************************************)
(* C2.  In an iteration whose envelope is valid, with a non-empty          *)
(* homeworks whose element 0 has a known status and a homework_name, no    *)
(* error is caught, send_message is called exactly once, with the verdict  *)
(* text of element 0, and when the iteration reaches its sleep the cursor  *)
(* is the envelope's current_date.                                         *)
(***************************************************************************)
C2_VerdictIteration ==
    (ValidEnvelope(response) /\ Len(response.homeworks.items) > 0 /\ Notifiable(Element0)) =>
        /\ pc \in {"check_response", "len", "parse_status", "send_message",
                   "set_timestamp", "sleep"}
        /\ pc \in {"check_response", "len", "parse_status", "send_message"} => sent = <<>>
        /\ pc \in {"set_timestamp", "sleep"} =>
              /\ Len(sent) = 1
              /\ sent[1].text = ExpectedText(Element0)
        /\ pc = "sleep" => timestamp = response.current_date

\* the end-to-end scenario: a rejected "Lab 2" was notified and the cursor
\* moved to current_date
C2_Witness ==
    /\ pc = "sleep"
    /\ ValidEnvelope(response)
    /\ Len(response.homeworks.items) > 0
    /\ Notifiable(Element0)
    /\ Element0.status = "rejected"
    /\ response.current_date = MaxTime
    /\ timestamp = MaxTime
    /\ Len(sent) = 1

(***************************************************************************)
(* C3.  check_response returns the homeworks list only for a mapping that  *)
(* holds both keys, homeworks being a list; for every other input it       *)
(* raises and returns nothing.  (Fails: the key test of line 122 looks at  *)
(* the literals, not at the mapping.)                                      *)
(***************************************************************************)
C3_CheckResponseContract ==
    /\ pc = "len" => ValidEnvelope(response) /\ homeworks = response.homeworks.items
    /\ (pc \in HandlerPcs /\ error.tb = "check_response") =>
            ~ValidEnvelope(response) /\ error.type = "TypeError"

(***************************************************************************)
(* C4.  In an iteration where element 0 of the validated homeworks has its *)
(* status absent or null, send_message is not called at all.  (Fails: the  *)
(* WrongStatusError of line 146 reaches the handler of line 169 like any   *)
(* other exception.)                                                       *)
(***************************************************************************)
C4_NoNewStatusIsSilent ==
    (/\ pc \in LoopPcs \ {"get_api_answer", "get_api_answer_return", "check_response"}
     /\ HasList(response)
     /\ Len(response.homeworks.items) > 0
     /\ Element0.isdict
     /\ Get(Element0, "status") = None) =>
        sent = <<>>

(***************************************************************************)
(* C5.  No step of the loop lowers the cursor.  (Fails: line 167 stores    *)
(* whatever current_date the API sent.)                                    *)
(***************************************************************************)
C5_CursorMonotonic == [][(pc \in LoopPcs) => (timestamp' >= timestamp)]_vars

(***************************************************************************)
(* C6.  main is in its loop only if the three tokens are set and not       *)
(* empty; if one is unset or empty, check_tokens raises and main ends      *)
(* there.  (Fails: line 47 tests for None only.)                           *)
(***************************************************************************)
C6_TokensGuardTheLoop ==
    LET bad == \E t \in {PRACTICUM_TOKEN, TELEGRAM_TOKEN, TELEGRAM_CHAT_ID} :
                    t \in {None, ""}
    IN  /\ pc \in LoopPcs => ~bad
        /\ (bad /\ pc # "check_tokens") => (pc = "exited" /\ error.tb = "check_tokens")

(***************************************************************************)
(* C7.  For every status code other than 200, get_api_answer raises an     *)
(* error that carries the code and returns no body to main.  (Fails:       *)
(* raise_for_status raises for 4xx and 5xx only.)                          *)
(***************************************************************************)
C7_Non200IsAnError ==
    [][(pc = "get_api_answer_return" /\ r.status_code # 200) =>
            /\ pc' = "except"
            /\ error'.type = "HTTPError"
            /\ error'.args = <<ToString(r.status_code)>>
            /\ response' = response]_vars

(***************************************************************************)
(* C8.  A failed delivery does not leave send_message: after either call   *)
(* of send_message main is at the statement that follows it, with nothing  *)
(* raised, whether the message was delivered or not; the text is not kept  *)
(* for a later attempt and is sent at most once in the iteration; and      *)
(* line 167 moves the cursor to current_date after a failed delivery as    *)
(* after a successful one.                                                 *)
(***************************************************************************)
C8_DeliveryFailureIsSwallowed ==
    [][/\ pc = "send_message" =>
            /\ pc' = "set_timestamp"
            /\ error' = error
            /\ message' = NoMessage
            /\ \E d \in BOOLEAN : sent' = Append(sent, Call(message, d))
       /\ pc = "send_error" =>
            /\ pc' = "set_error_message"
            /\ error' = error
            /\ message' = NoMessage
            /\ \E d \in BOOLEAN : sent' = Append(sent, Call(message, d))
       /\ pc \notin {"send_message", "send_error", "get_api_answer"} => sent' = sent
       /\ (pc = "set_timestamp" /\ "current_date" \in response.keys) =>
            /\ timestamp' = response.current_date
            /\ pc' = "sleep"
       /\ \A i, j \in 1..Len(sent') : sent'[i].text = sent'[j].text => i = j]_vars

\* a verdict whose delivery failed, and the cursor moved all the same
C8_Witness ==
    /\ pc = "sleep"
    /\ Len(sent) = 1
    /\ ~sent[1].delivered
    /\ response.current_date = MaxTime
    /\ timestamp = response.current_date

(***************************************************************************)
(* C9.  parse_status follows the decision table on every record whose      *)
(* status is one of the three known values, absent or null, or another     *)
(* string: a text with the name and the verdict of the status exactly for  *)
(* a known status with a homework_name; KeyError for a known status        *)
(* without one; WrongStatusError('Status None') for an absent or null      *)
(* status; WrongStatusError('Status is not documented') for another        *)
(* string.                                                                 *)
(***************************************************************************)
C9_DecisionTable ==
    LET h == Element0
        known == Get(h, "status") \in {"approved", "reviewing", "rejected"}
        inTable == h.isdict /\ Get(h, "status") # "[]"
    IN  /\ pc = "send_message" =>
            /\ Notifiable(h)
            /\ message = ExpectedText(h)
        /\ (pc \in HandlerPcs /\ error.tb = "parse_status" /\ inTable) =>
            /\ ~(known /\ "homework_name" \in h.keys)
            /\ (known /\ "homework_name" \notin h.keys) =>
                    error.type = "KeyError" /\ error.args = <<"Key homework_name is absent">>
            /\ Get(h, "status") = None =>
                    error.type = "WrongStatusError" /\ error.args = <<"Status None">>
            /\ (~known /\ Get(h, "status") # None) =>
                    error.type = "WrongStatusError" /\ error.args = <<"Status is not documented">>

\* parse_status has refused an undocumented status
C9_Witness ==
    /\ pc = "except"
    /\ error.tb = "parse_status"
    /\ Element0.isdict
    /\ Get(Element0, "status") = "archived"
    /\ error.args = <<"Status is not documented">>

(***************************************************************************)
(* C10.  In an iteration whose envelope is valid with an empty homeworks,  *)
(* send_message is not called and no exception is raised: the iteration    *)
(* goes from the length test straight to its sleep.                        *)
(***************************************************************************)
C10_EmptyIsSilent ==
    (ValidEnvelope(response) /\ Len(response.homeworks.items) = 0) =>
        /\ pc \in {"check_response", "len", "sleep"}
        /\ sent = <<>>
        /\ error = NoExc

\* an iteration with an empty homeworks is about to sleep
C10_Witness ==
    /\ pc = "sleep"
    /\ ValidEnvelope(response)
    /\ Len(response.homeworks.items) = 0
    /\ sent = <<>>

(***************************************************************************)
(* C11.  Between two consecutive requests of get_api_answer main sleeps    *)
(* exactly once, for RETRY_PERIOD seconds: every step that brings main     *)
(* back to the request, after a successful or a failing iteration, finds   *)
(* one sleep of RETRY_PERIOD made since the last request.  (The handler    *)
(* sleeps only inside the if of line 170; no iteration of the code takes   *)
(* the other branch.)                                                      *)
(***************************************************************************)
C11_OneSleepPerIteration ==
    [][/\ (pc \in LoopPcs /\ pc' = "get_api_answer") => slept' = <<600>>
       /\ pc = "get_api_answer" => slept' = <<>>
       /\ (pc \in LoopPcs \ {"get_api_answer", "sleep", "sleep_except"}) => slept' = slept]_vars

\* a failing iteration, its notification delivered, has slept once and is
\* back at the request
C11_Witness ==
    /\ pc = "get_api_answer"
    /\ slept = <<RETRY_PERIOD>>
    /\ error_message.type = "HTTPError"
    /\ Len(sent) = 1
    /\ sent[1].delivered

(***************************************************************************)
(* C12.  An error notification is sent only when its text differs from     *)
(* that of the error notified last: a failing iteration whose error text   *)
(* equals the remembered one calls send_message not at all.  (Fails: line  *)
(* 170 compares the exception object with the remembered exception         *)
(* object, and two objects are never equal.)                               *)
(***************************************************************************)
C12_DuplicateSuppressed ==
    pc = "send_error" => message # FailureText(error_message)

(***************************************************************************)
(* C13.  An iteration calls send_message at most once.  (Fails: an         *)
(* envelope without current_date passes check_response, its verdict is     *)
(* sent, line 167 raises KeyError and the handler sends a second message.) *)
(***************************************************************************)
C13_AtMostOneCall == Len(sent) <= 1

(***************************************************************************)
(* C14.  The cursor changes only in an iteration whose request and         *)
(* check_response succeeded: while the iteration runs the cursor differs   *)
(* from its value at the request only once line 167 has stored             *)
(* current_date, with no exception raised, and in the handler the cursor   *)
(* is what it was at the request.                                          *)
(***************************************************************************)
C14_CursorFrame ==
    /\ pc \in HandlerPcs => timestamp = cursor0
    /\ (pc \in LoopPcs \ {"get_api_answer"} /\ timestamp # cursor0) =>
            /\ pc = "sleep"
            /\ HasList(response)
            /\ homeworks = response.homeworks.items
            /\ error = NoExc
            /\ timestamp = response.current_date

\* the handler ends after the KeyError of a missing current_date, the
\* cursor as it was
C14_Witness ==
    /\ pc = "sleep_except"
    /\ error.type = "KeyError"
    /\ error.tb = "main"
    /\ Len(sent) = 2
    /\ timestamp = cursor0
    /\ timestamp = MaxTime

(***************************************************************************)
(* C15, as claimed.  After every iteration whose request and               *)
(* check_response succeeded the cursor is the envelope's current_date,     *)
(* an empty homeworks included.  (Fails: line 167 is inside the if of line *)
(* 162.)                                                                   *)
(***************************************************************************)
C15_AdvancesRegardless ==
    (pc = "sleep" /\ ValidEnvelope(response)) => timestamp = response.current_date

(***************************************************************************)
(* C15, amended.  An iteration that reaches its sleep with a non-empty     *)
(* homeworks has moved the cursor to the envelope's current_date; one      *)
(* that reaches it with an empty homeworks has left the cursor as it was   *)
(* at the request.                                                         *)
(***************************************************************************)
C15_AdvancesWhenRecords ==
    (pc = "sleep" /\ HasList(response)) =>
        IF Len(response.homeworks.items) > 0
        THEN "current_date" \in response.keys /\ timestamp = response.current_date
        ELSE timestamp = cursor0

\* an empty homeworks with a current_date the cursor did not take
C15_Witness ==
    /\ pc = "sleep"
    /\ ValidEnvelope(response)
    /\ Len(response.homeworks.items) = 0
    /\ response.current_date # timestamp
    /\ timestamp = cursor0

(***************************************************************************)
(* C16.  When requests.get itself fails, get_api_answer raises a request-  *)
(* level error (RequestException) and nothing else.  (Fails: line 93 reads *)
(* the local response, which the failed call never bound, so an            *)
(* UnboundLocalError is raised in place of the RequestException.)          *)
(***************************************************************************)
C16_TransportErrorKind ==
    [][(pc = "get_api_answer" /\ pc' = "except") =>
            /\ error'.type = "RequestException"
            /\ error'.tb = "get_api_answer"]_vars

(***************************************************************************)
(* C17.  error_message is never reset.  It changes only at line 173, after *)
(* the error notification of this iteration was handed to send_message,    *)
(* and becomes the error just notified; once it holds an error it never    *)
(* holds '' again; and the steps of get_api_answer, check_response,        *)
(* parse_status and send_message change neither it nor the cursor.         *)
(***************************************************************************)
C17_ErrorMemoryFrame ==
    [][/\ error_message' # error_message =>
            /\ pc = "set_error_message"
            /\ error_message' = error
            /\ Len(sent) >= 1
            /\ sent[Len(sent)].text = FailureText(error)
       /\ error_message # EmptyStr => error_message' # EmptyStr
       /\ pc \in {"get_api_answer", "get_api_answer_return", "check_response",
                  "parse_status", "send_message", "send_error"} =>
            /\ error_message' = error_message
            /\ timestamp' = timestamp]_vars

\* a second error has replaced the first in error_message
C17_Witness ==
    /\ pc = "sleep_except"
    /\ error_message = error
    /\ error_message.oid = 2
    /\ sent[Len(sent)].text = FailureText(error_message)

(***************************************************************************)
(* C18.  parse_status is called at most once in an iteration, only after   *)
(* check_response returned a non-empty list, and only on element 0 of it;  *)
(* every text an iteration sends is the verdict of element 0 or a failure  *)
(* text, never the verdict of a later record.                              *)
(***************************************************************************)
C18_OnlyElement0 ==
    /\ Len(parsed) <= 1
    /\ parsed # <<>> =>
            /\ HasList(response)
            /\ homeworks = response.homeworks.items
            /\ Len(homeworks) > 0
            /\ parsed[1] = homeworks[1]
    /\ pc \in LoopPcs \ {"get_api_answer"} =>
            \A i \in 1..Len(sent) :
                \/ sent[i].text[1] = "Program failure:"
                \/ /\ parsed # <<>>
                   /\ Notifiable(Element0)
                   /\ sent[i].text = ExpectedText(Element0)

\* a rejected record at index 0 was notified and the approved one at index
\* 1 was not
C18_Witness ==
    /\ pc = "sleep"
    /\ Len(response.homeworks.items) = 2
    /\ Element0.status = "rejected"
    /\ Notifiable(Element0)
    /\ parsed = <<Element0>>
    /\ Len(sent) = 1
    /\ sent[1].text = ExpectedText(Element0)

====
